---- MODULE Spec2Model ----
(***************************************************************************)
(* gpu_top.py: the acquisition and reconciliation pipeline (get_gpu_stats, *)
(* get_compute_processes, get_pmon_once, enrich_procs_with_pmon, snapshot) *)
(* and its two callers, print_once (--once) and draw (continuous mode).    *)
(*                                                                         *)
(* Encoding of Python values:                                              *)
(*   - a tool output is a sequence of lines.  A CSV line is the sequence   *)
(*     of its raw comma-separated fields (padding kept, as nvidia-smi      *)
(*     prints "a, b, c"); a pmon line is the sequence of its               *)
(*     whitespace-separated tokens (what ln.split() returns);              *)
(*   - None is <<>> and a non-None value v is <<v>>, for every field the   *)
(*     code may set to None;                                               *)
(*   - a float is kept in tenths (50.5 is 505);                            *)
(*   - a dict is a function on the set of its keys.                        *)
(***************************************************************************)
EXTENDS Integers, Sequences, FiniteSets, TLC

VARIABLES
    mode,           \* "once" (print_once), "draw" (curses loop), or "unit" (one
                    \* reader called on its own)
    pc,             \* position of the single thread
    devOut,         \* text the device query printed in this cycle
    procOut,        \* text the process query printed in this cycle
    pmonOut,        \* text the monitoring sample printed in this cycle
    gpus,           \* snapshot(): gpus
    uuid_to_index,  \* snapshot(): uuid_to_index
    procs,          \* snapshot(): procs
    pmon,           \* snapshot(): pmon
    grouped,        \* snapshot(): per_gpu before the sort of lines 154-155
    per_gpu,        \* snapshot(): per_gpu
    writes,         \* per process record: assignments made by lines 122-123
    calls,          \* what the current refresh cycle has done so far, in order
    quit,           \* draw(): getch() has returned ord('q')
    elapsed         \* draw(): key-poll iterations since the last refresh

vars == <<mode, pc, devOut, procOut, pmonOut, gpus, uuid_to_index, procs, pmon,
          grouped, per_gpu, writes, calls, quit, elapsed>>

----------------------------------------------------------------------------
(* Bounds of the model *)

MaxDevLines == 2
MaxProcLines == 2
MaxPmonLines == 2
MaxReaderLines == 2
MaxDrawLines == 1
MaxPolls == 2

----------------------------------------------------------------------------
(* Python values *)

None == <<>>
Some(v) == <<v>>

\* `x or 0` for x an int or None
OrZero(o) == IF o = None THEN 0 ELSE o[1]

\* dict.get(k): None when the key is absent
DictGet(d, k) == IF k \in DOMAIN d THEN Some(d[k]) ELSE None

EmptyDict == [k \in {} |-> 0]

\* d[k] = v
DictSet(d, k, v) == [x \in (DOMAIN d) \cup {k} |-> IF x = k THEN v ELSE d[x]]

SeqsUpTo(S, n) == UNION {[1..k -> S] : k \in 0..n}

----------------------------------------------------------------------------
(* str.strip(), int(), float() and os.path.basename() on the strings that   *)
(* occur in the modelled tool outputs.                                      *)

StripTable ==
    (" " :> "") @@ (" 0" :> "0") @@ (" 1" :> "1") @@ (" 10" :> "10") @@
    (" 30" :> "30") @@ (" 40" :> "40") @@ (" 256" :> "256") @@
    (" 512" :> "512") @@ (" 1024" :> "1024") @@ (" 1200" :> "1200") @@
    (" 50.5" :> "50.5") @@ (" 250.0" :> "250.0") @@ (" N/A" :> "N/A") @@
    (" hot" :> "hot") @@ (" A100" :> "A100") @@ (" T4" :> "T4") @@
    (" GPU-a" :> "GPU-a") @@ (" GPU-b" :> "GPU-b") @@ (" GPU-c" :> "GPU-c") @@
    (" /usr/bin/python" :> "/usr/bin/python") @@ (" train" :> "train")

strip(s) == IF s \in DOMAIN StripTable THEN StripTable[s] ELSE s

IntTable ==
    ("0" :> 0) @@ ("1" :> 1) @@ ("10" :> 10) @@ ("20" :> 20) @@ ("30" :> 30) @@
    ("40" :> 40) @@ ("80" :> 80) @@ ("100" :> 100) @@ ("200" :> 200) @@
    ("256" :> 256) @@ ("512" :> 512) @@ ("1024" :> 1024) @@ ("1200" :> 1200)

\* int(s) raises ValueError unless s is a decimal numeral
int_ok(s) == s \in DOMAIN IntTable
int(s) == IntTable[s]

FloatTable == ("50.5" :> 505) @@ ("250.0" :> 2500)

\* float(s) accepts every numeral int() accepts, and decimals
float_ok(s) == s \in DOMAIN FloatTable \/ s \in DOMAIN IntTable
float(s) == IF s \in DOMAIN FloatTable THEN FloatTable[s] ELSE 10 * IntTable[s]

BasenameTable == ("/usr/bin/python" :> "python")

basename(s) == IF s \in DOMAIN BasenameTable THEN BasenameTable[s] ELSE s

\* ln.startswith('#')
HashTokens == {"#", "#Idx"}

----------------------------------------------------------------------------
(* Exceptions.  A conversion or an index into a row either succeeds or      *)
(* raises; "none" is the absence of an exception.                           *)

NoExc == "none"

\* The exception classes the modelled statements can raise; all of them are
\* subclasses of Exception, which is what the three readers catch.
ExceptionClasses == {"IndexError", "ValueError"}

\* r[i] for a Python (0-based) index
At(r, i) == r[i + 1]

\* The exception raised by evaluating one column of a row:
\*   "str":      r[i]
\*   "int":      int(r[i])
\*   "optint":   int(r[i]) if r[i] != 'N/A' else None
\*   "optfloat": float(r[i]) if r[i] != 'N/A' else None
\*   "dashint":  None if r[i] == '-' else int(r[i])    (also the pid form)
FieldExc(r, i, kind) ==
    IF Len(r) < i + 1 THEN "IndexError"
    ELSE IF kind = "int" /\ ~int_ok(At(r, i)) THEN "ValueError"
    ELSE IF kind = "optint" /\ At(r, i) # "N/A" /\ ~int_ok(At(r, i)) THEN "ValueError"
    ELSE IF kind = "optfloat" /\ At(r, i) # "N/A" /\ ~float_ok(At(r, i)) THEN "ValueError"
    ELSE IF kind = "dashint" /\ At(r, i) # "-" /\ ~int_ok(At(r, i)) THEN "ValueError"
    ELSE NoExc

\* The first exception of a sequence of evaluations, in evaluation order
RECURSIVE FirstExc(_)
FirstExc(es) ==
    IF es = <<>> THEN NoExc
    ELSE IF Head(es) # NoExc THEN Head(es)
    ELSE FirstExc(Tail(es))

OptInt(s) == IF s = "N/A" THEN None ELSE Some(int(s))
OptFloat(s) == IF s = "N/A" THEN None ELSE Some(float(s))
DashInt(s) == IF s = "-" THEN None ELSE Some(int(s))

----------------------------------------------------------------------------
(* parse_csv, lines 26-33 *)

\* `not ln.strip()`: the line holds nothing but white space
csv_blank(ln) == Len(ln) = 0 \/ (Len(ln) = 1 /\ strip(ln[1]) = "")

csv_parts(ln) == [i \in 1..Len(ln) |-> strip(ln[i])]

RECURSIVE parse_csv(_)
parse_csv(lines) ==
    IF lines = <<>> THEN <<>>
    ELSE IF csv_blank(Head(lines)) THEN parse_csv(Tail(lines))
    ELSE <<csv_parts(Head(lines))>> \o parse_csv(Tail(lines))

----------------------------------------------------------------------------
(* get_gpu_stats, lines 36-65 *)

\* the kinds of the columns r[0] .. r[9], in the order the dict literal of
\* lines 49-61 evaluates them
gpu_columns ==
    <<"str", "int", "str", "int", "int", "int", "int", "optfloat", "optfloat", "optint">>

\* line 60: int(r[10]) if len(r) > 10 and r[10] != 'N/A' else None
fan_exc(r) ==
    IF Len(r) > 10 /\ At(r, 10) # "N/A" /\ ~int_ok(At(r, 10)) THEN "ValueError" ELSE NoExc

fan_value(r) == IF Len(r) > 10 /\ At(r, 10) # "N/A" THEN Some(int(At(r, 10))) ELSE None

\* the exception the body of the try of lines 48-61 raises for row r
gpu_row_exc(r) ==
    FirstExc([i \in 1..10 |-> FieldExc(r, i - 1, gpu_columns[i])] \o <<fan_exc(r)>>)

\* the dict of lines 49-61
gpu_row_record(r) ==
    [uuid |-> At(r, 0), index |-> int(At(r, 1)), name |-> At(r, 2),
     temp |-> int(At(r, 3)), util |-> int(At(r, 4)),
     mem_used |-> int(At(r, 5)), mem_total |-> int(At(r, 6)),
     pwr |-> OptFloat(At(r, 7)), pwr_lim |-> OptFloat(At(r, 8)),
     sm_clock |-> OptInt(At(r, 9)), fan |-> fan_value(r)]

\* variant: except ValueError
gpu_except_ValueErrorOnly == {"ValueError"}

\* variant: break instead of continue at line 64
RECURSIVE gpu_loop_break(_, _)
gpu_loop_break(rows, stats) ==
    IF rows = <<>> THEN [stats |-> stats, exc |-> NoExc]
    ELSE LET e == gpu_row_exc(Head(rows)) IN
         IF e = NoExc
         THEN gpu_loop_break(Tail(rows), Append(stats, gpu_row_record(Head(rows))))
         ELSE [stats |-> stats, exc |-> NoExc]

\* line 62: except Exception
gpu_except == ExceptionClasses

\* the loop of lines 47-64; exc is the exception that leaves the function
RECURSIVE gpu_loop(_, _)
gpu_loop(rows, stats) ==
    IF rows = <<>> THEN [stats |-> stats, exc |-> NoExc]
    ELSE LET e == gpu_row_exc(Head(rows)) IN
         IF e = NoExc THEN gpu_loop(Tail(rows), Append(stats, gpu_row_record(Head(rows))))
         ELSE IF e \in gpu_except THEN gpu_loop(Tail(rows), stats)
         ELSE [stats |-> stats, exc |-> e]

\* variant: the records in reverse row order
get_gpu_stats_reversed(out) ==
    LET res == gpu_loop(parse_csv(out), <<>>) IN
    [stats |-> [i \in 1..Len(res.stats) |-> res.stats[Len(res.stats) + 1 - i]],
     exc |-> res.exc]

get_gpu_stats(out) == gpu_loop(parse_csv(out), <<>>)

----------------------------------------------------------------------------
(* get_compute_processes, lines 68-88 *)

proc_columns == <<"int", "str", "str", "str">>

\* line 80: int(r[2]) if r[2] != 'N/A' else 0
proc_mem_exc(r) ==
    IF Len(r) >= 3 /\ At(r, 2) # "N/A" /\ ~int_ok(At(r, 2)) THEN "ValueError" ELSE NoExc

proc_row_exc(r) ==
    FirstExc(<<FieldExc(r, 0, "int"), FieldExc(r, 1, "str"), FieldExc(r, 2, "str"),
               proc_mem_exc(r), FieldExc(r, 3, "str")>>)

\* variant: the placeholders of lines 83-84 are 0
proc_row_record_sm0(r) ==
    [pid |-> int(At(r, 0)),
     name |-> IF At(r, 1) # "" THEN basename(At(r, 1)) ELSE "-",
     mem |-> IF At(r, 2) # "N/A" THEN int(At(r, 2)) ELSE 0,
     uuid |-> At(r, 3),
     sm |-> Some(0),
     mem_util |-> Some(0)]

\* the dict of lines 77-85
proc_row_record(r) ==
    [pid |-> int(At(r, 0)),
     name |-> IF At(r, 1) # "" THEN basename(At(r, 1)) ELSE "-",
     mem |-> IF At(r, 2) # "N/A" THEN int(At(r, 2)) ELSE 0,
     uuid |-> At(r, 3),
     sm |-> None,
     mem_util |-> None]

\* line 86: except Exception
proc_except == ExceptionClasses

RECURSIVE proc_loop(_, _)
proc_loop(rows, acc) ==
    IF rows = <<>> THEN [procs |-> acc, exc |-> NoExc]
    ELSE LET e == proc_row_exc(Head(rows)) IN
         IF e = NoExc THEN proc_loop(Tail(rows), Append(acc, proc_row_record(Head(rows))))
         ELSE IF e \in proc_except THEN proc_loop(Tail(rows), acc)
         ELSE [procs |-> acc, exc |-> e]

get_compute_processes(out) == proc_loop(parse_csv(out), <<>>)

----------------------------------------------------------------------------
(* get_pmon_once, lines 91-113 *)

\* line 98: not ln or ln.startswith('#'), ln being the stripped line
pmon_skipped(parts) == Len(parts) = 0 \/ parts[1] \in HashTokens

\* lines 105-109
pmon_row_exc(parts) ==
    FirstExc(<<FieldExc(parts, 0, "int"), FieldExc(parts, 1, "dashint"),
               FieldExc(parts, 3, "dashint"), FieldExc(parts, 4, "dashint"),
               FieldExc(parts, 8, "str")>>)

\* the dict of line 110
pmon_row_record(parts) ==
    [gpu |-> int(At(parts, 0)), pid |-> DashInt(At(parts, 1)),
     sm |-> DashInt(At(parts, 3)), mem |-> DashInt(At(parts, 4)),
     cmd |-> At(parts, 8)]

\* line 111: except Exception
pmon_except == ExceptionClasses

\* line 102: if len(parts) < 9: continue
pmon_min_columns == 9

RECURSIVE pmon_loop(_, _)
pmon_loop(lines, acc) ==
    IF lines = <<>> THEN [pmon |-> acc, exc |-> NoExc]
    ELSE IF pmon_skipped(Head(lines)) \/ Len(Head(lines)) < pmon_min_columns
         THEN pmon_loop(Tail(lines), acc)
    ELSE LET e == pmon_row_exc(Head(lines)) IN
         IF e = NoExc THEN pmon_loop(Tail(lines), Append(acc, pmon_row_record(Head(lines))))
         ELSE IF e \in pmon_except THEN pmon_loop(Tail(lines), acc)
         ELSE [pmon |-> acc, exc |-> e]

get_pmon_once(out) == pmon_loop(out, <<>>)

----------------------------------------------------------------------------
(* enrich_procs_with_pmon, lines 116-124 *)

\* the key (e['gpu'], e['pid']) of a sample and the key (gpu_idx, p['pid'])
\* of a process record; gpu_idx is None when the uuid is unknown
sample_key(e) == <<Some(e.gpu), e.pid>>
proc_key(p, u2i) == <<DictGet(u2i, p.uuid), Some(p.pid)>>

\* variant: the first sample of a key is kept
RECURSIVE pmon_index_first_wins(_, _)
pmon_index_first_wins(samples, ix) ==
    IF samples = <<>> THEN ix
    ELSE LET e == Head(samples) IN
         IF e.pid # None /\ sample_key(e) \notin DOMAIN ix
         THEN pmon_index_first_wins(Tail(samples), DictSet(ix, sample_key(e), e))
         ELSE pmon_index_first_wins(Tail(samples), ix)

\* line 117: the dict comprehension; a later sample replaces an earlier one
RECURSIVE pmon_index(_, _)
pmon_index(samples, ix) ==
    IF samples = <<>> THEN ix
    ELSE LET e == Head(samples) IN
         IF e.pid # None
         THEN pmon_index(Tail(samples), DictSet(ix, sample_key(e), e))
         ELSE pmon_index(Tail(samples), ix)

\* lines 119-123 for one process record
enrich_one(p, ix, u2i) ==
    LET key == proc_key(p, u2i) IN
    IF key \in DOMAIN ix
    THEN [p EXCEPT !.sm = ix[key].sm, !.mem_util = ix[key].mem]
    ELSE p

\* how many times lines 122-123 run for one process record
enrich_writes_one(p, ix, u2i) == IF proc_key(p, u2i) \in DOMAIN ix THEN 1 ELSE 0

enrich_procs_with_pmon(ps, samples, u2i) ==
    LET ix == pmon_index(samples, EmptyDict) IN
    [i \in 1..Len(ps) |-> enrich_one(ps[i], ix, u2i)]

enrich_writes(ps, samples, u2i) ==
    LET ix == pmon_index(samples, EmptyDict) IN
    [i \in 1..Len(ps) |-> enrich_writes_one(ps[i], ix, u2i)]

----------------------------------------------------------------------------
(* snapshot, lines 139-156 *)

\* variant: the first row of a uuid is kept
RECURSIVE build_uuid_to_index_first_wins(_, _)
build_uuid_to_index_first_wins(gs, d) ==
    IF gs = <<>> THEN d
    ELSE IF Head(gs).uuid \in DOMAIN d
         THEN build_uuid_to_index_first_wins(Tail(gs), d)
         ELSE build_uuid_to_index_first_wins(Tail(gs), DictSet(d, Head(gs).uuid, Head(gs).index))

\* line 141: {g['uuid']: g['index'] for g in gpus}
RECURSIVE build_uuid_to_index(_, _)
build_uuid_to_index(gs, d) ==
    IF gs = <<>> THEN d
    ELSE build_uuid_to_index(Tail(gs), DictSet(d, Head(gs).uuid, Head(gs).index))

\* lines 146-148: an empty list for every device index
empty_groups(gs) == [idx \in {gs[i].index : i \in 1..Len(gs)} |-> <<>>]

\* variant: a key is created when the first process of a device is placed
RECURSIVE group_procs_on_demand(_, _, _)
group_procs_on_demand(ps, u2i, groups) ==
    IF ps = <<>> THEN groups
    ELSE LET idx == DictGet(u2i, Head(ps).uuid) IN
         IF idx # None
         THEN group_procs_on_demand(Tail(ps), u2i,
                  DictSet(groups, idx[1],
                          IF idx[1] \in DOMAIN groups
                          THEN Append(groups[idx[1]], Head(ps)) ELSE <<Head(ps)>>))
         ELSE group_procs_on_demand(Tail(ps), u2i, groups)

\* variant: a process with an unknown uuid goes to the lowest device index
RECURSIVE group_procs_unknown_first(_, _, _)
group_procs_unknown_first(ps, u2i, groups) ==
    IF ps = <<>> THEN groups
    ELSE LET got == DictGet(u2i, Head(ps).uuid)
             idx == IF got = None /\ DOMAIN groups # {}
                    THEN Some(CHOOSE k \in DOMAIN groups : \A j \in DOMAIN groups : k <= j)
                    ELSE got IN
         IF idx # None /\ idx[1] \in DOMAIN groups
         THEN group_procs_unknown_first(Tail(ps), u2i,
                  [groups EXCEPT ![idx[1]] = Append(@, Head(ps))])
         ELSE group_procs_unknown_first(Tail(ps), u2i, groups)

RECURSIVE group_procs_loop(_, _, _)
group_procs_loop(ps, u2i, groups) ==
    IF ps = <<>> THEN groups
    ELSE LET idx == DictGet(u2i, Head(ps).uuid) IN
         IF idx # None /\ idx[1] \in DOMAIN groups
         THEN group_procs_loop(Tail(ps), u2i, [groups EXCEPT ![idx[1]] = Append(@, Head(ps))])
         ELSE group_procs_loop(Tail(ps), u2i, groups)

group_procs_keys_on_demand(gs, ps, u2i) == group_procs_on_demand(ps, u2i, EmptyDict)

group_procs_keep_unknown(gs, ps, u2i) == group_procs_unknown_first(ps, u2i, empty_groups(gs))

\* lines 146-152
group_procs(gs, ps, u2i) == group_procs_loop(ps, u2i, empty_groups(gs))

\* line 155: the key (x['sm'] or 0, x['mem'] or 0); mem is an int, never None
sort_key(x) == <<OrZero(x.sm), x.mem>>

\* tuple comparison a >= b
key_ge(a, b) == a[1] > b[1] \/ (a[1] = b[1] /\ a[2] >= b[2])

\* list.sort(key=..., reverse=True) is stable: records with equal keys keep
\* their order.  x goes after the last record whose key is >= its own.
RECURSIVE insert_desc(_, _)
insert_desc(x, sorted) ==
    IF sorted = <<>> THEN <<x>>
    ELSE IF key_ge(sort_key(Head(sorted)), sort_key(x))
         THEN <<Head(sorted)>> \o insert_desc(x, Tail(sorted))
         ELSE <<x>> \o sorted

RECURSIVE sort_desc(_, _)
sort_desc(xs, sorted) ==
    IF xs = <<>> THEN sorted
    ELSE sort_desc(Tail(xs), insert_desc(Head(xs), sorted))

\* variant: reverse=True is missing
sort_groups_ascending(groups) ==
    [idx \in DOMAIN groups |->
        LET d == sort_desc(groups[idx], <<>>) IN [i \in 1..Len(d) |-> d[Len(d) + 1 - i]]]

\* lines 154-155
sort_groups(groups) == [idx \in DOMAIN groups |-> sort_desc(groups[idx], <<>>)]

----------------------------------------------------------------------------
(* What nvidia-smi may print.  Device query columns: uuid, index, name,     *)
(* temperature.gpu, utilization.gpu, memory.used, memory.total, power.draw, *)
(* power.limit, clocks.sm, fan.speed.                                       *)

dev_a0 ==
    <<"GPU-a", " 0", " A100", " 40", " 10", " 512", " 1024", " 50.5", " 250.0", " 1200", " 30">>
dev_b1 ==
    <<"GPU-b", " 1", " T4", " 40", " 10", " 256", " 1024", " N/A", " N/A", " N/A", " N/A">>
\* no fan column; the index of dev_a0 and the uuid of dev_b1
dev_b0_nofan ==
    <<"GPU-b", " 0", " T4", " 30", " 10", " 256", " 1024", " 50.5", " 250.0", " 1200">>
\* unparseable temperature
dev_a1_hot ==
    <<"GPU-a", " 1", " A100", " hot", " 10", " 512", " 1024", " 50.5", " 250.0", " 1200", " 30">>
\* too few columns
dev_short == <<"GPU-a", " 1", " A100">>
\* unparseable optional column (power.draw)
dev_b1_badpwr ==
    <<"GPU-b", " 1", " T4", " 40", " 10", " 256", " 1024", " hot", " 250.0", " 1200", " 30">>
\* unparseable fan column
dev_b1_badfan ==
    <<"GPU-b", " 1", " T4", " 40", " 10", " 256", " 1024", " 50.5", " 250.0", " 1200", " hot">>
csv_blank_line == <<" ">>

\* Process query columns: pid, process_name, used_memory, gpu_uuid
proc_100_a == <<"100", " /usr/bin/python", " 512", " GPU-a">>
proc_200_a == <<"200", " train", " 256", " GPU-a">>
\* no name, no memory figure; the pid of proc_200_a on another device
proc_200_b == <<"200", " ", " N/A", " GPU-b">>
\* a uuid no device row carries
proc_100_c == <<"100", " train", " 256", " GPU-c">>
proc_badpid == <<"N/A", " train", " 256", " GPU-a">>
proc_short == <<"100", " train">>

\* pmon columns: gpu pid type sm mem enc dec fb command
pmon_0_200 == <<"0", "200", "C", "80", "40", "-", "-", "256", "train">>
\* the same (gpu, pid) with no utilization figures
pmon_0_200_dash == <<"0", "200", "C", "-", "-", "-", "-", "256", "train">>
pmon_1_100 == <<"1", "100", "C", "20", "30", "-", "-", "512", "python">>
\* an idle slot: no process on the device
pmon_idle == <<"0", "-", "-", "-", "-", "-", "-", "-", "-">>
pmon_header == <<"#", "gpu", "pid", "type", "sm", "mem", "enc", "dec", "fb", "command">>
pmon_short == <<"0", "100", "C", "80">>
pmon_badgpu == <<"N/A", "100", "C", "80", "40", "-", "-", "512", "python">>
pmon_blank == <<>>

\* the lines of a refresh cycle
DevLines == {dev_a0, dev_b1, dev_b0_nofan, dev_a1_hot}
ProcLines == {proc_100_a, proc_200_a, proc_200_b}
PmonLines == {pmon_0_200, pmon_0_200_dash, pmon_idle}

DevOutputs == SeqsUpTo(DevLines, MaxDevLines)
ProcOutputs == SeqsUpTo(ProcLines, MaxProcLines)
PmonOutputs == SeqsUpTo(PmonLines, MaxPmonLines)

\* the lines given to one reader called on its own
ReaderDevLines ==
    {dev_a0, dev_b1, dev_b0_nofan, dev_a1_hot, dev_short, dev_b1_badpwr, dev_b1_badfan,
     csv_blank_line}
ReaderProcLines ==
    {proc_100_a, proc_200_a, proc_200_b, proc_100_c, proc_badpid, proc_short, csv_blank_line}
ReaderPmonLines ==
    {pmon_0_200, pmon_0_200_dash, pmon_1_100, pmon_idle, pmon_header, pmon_short,
     pmon_badgpu, pmon_blank}

ReaderDevOutputs == SeqsUpTo(ReaderDevLines, MaxReaderLines)
ReaderProcOutputs == SeqsUpTo(ReaderProcLines, MaxReaderLines)
ReaderPmonOutputs == SeqsUpTo(ReaderPmonLines, MaxReaderLines)

\* the lines of a refresh cycle of the curses loop
DrawDevOutputs == SeqsUpTo({dev_a0, dev_b1, dev_a1_hot}, MaxDrawLines)
DrawProcOutputs == SeqsUpTo({proc_100_a, proc_200_a}, MaxDrawLines)
DrawPmonOutputs == SeqsUpTo({pmon_0_200, pmon_idle}, MaxDrawLines)

----------------------------------------------------------------------------
(* snapshot() as the steps of its single thread.  devOut, procOut and       *)
(* pmonOut keep what run_cmd returned in the cycle.                         *)

\* where the thread is after a reader: an exception that leaves the reader
\* leaves snapshot() too, which has no handler
after_reader(exc, next) ==
    IF exc # NoExc THEN "raised"
    ELSE IF mode = "unit" THEN "returned"
    ELSE next

Snapshot_vars == <<devOut, procOut, pmonOut, gpus, uuid_to_index, procs, pmon,
                   grouped, per_gpu, writes>>

\* lines 140-141
GetGpuStats(outs) ==
    /\ pc = "gpu"
    /\ \E out \in outs :
         LET res == get_gpu_stats(out) IN
         /\ devOut' = out
         /\ gpus' = res.stats
         /\ uuid_to_index' = build_uuid_to_index(res.stats, EmptyDict)
         /\ pc' = after_reader(res.exc, "procs")
    /\ calls' = Append(calls, "query-gpu")
    /\ UNCHANGED <<mode, procOut, pmonOut, procs, pmon, grouped, per_gpu, writes,
                   quit, elapsed>>

\* line 142
GetComputeProcesses(outs) ==
    /\ pc = "procs"
    /\ \E out \in outs :
         LET res == get_compute_processes(out) IN
         /\ procOut' = out
         /\ procs' = res.procs
         /\ writes' = [i \in 1..Len(res.procs) |-> 0]
         /\ pc' = after_reader(res.exc, "pmon")
    /\ calls' = Append(calls, "query-compute-apps")
    /\ UNCHANGED <<mode, devOut, pmonOut, gpus, uuid_to_index, pmon, grouped, per_gpu,
                   quit, elapsed>>

\* line 143
GetPmonOnce(outs) ==
    /\ pc = "pmon"
    /\ \E out \in outs :
         LET res == get_pmon_once(out) IN
         /\ pmonOut' = out
         /\ pmon' = res.pmon
         /\ pc' = after_reader(res.exc, "join")
    /\ calls' = Append(calls, "pmon")
    /\ UNCHANGED <<mode, devOut, procOut, gpus, uuid_to_index, procs, grouped, per_gpu,
                   writes, quit, elapsed>>

\* lines 144-156, and the return to print_once (line 237) or draw (line 179)
Reconcile ==
    /\ pc = "join"
    /\ LET enriched == enrich_procs_with_pmon(procs, pmon, uuid_to_index)
           groups == group_procs(gpus, enriched, uuid_to_index) IN
       /\ procs' = enriched
       /\ writes' = [i \in 1..Len(procs) |->
                        writes[i] + enrich_writes(procs, pmon, uuid_to_index)[i]]
       /\ grouped' = groups
       /\ per_gpu' = sort_groups(groups)
    /\ pc' = IF mode = "once" THEN "print" ELSE "render"
    /\ calls' = Append(calls, "join")
    /\ UNCHANGED <<mode, devOut, procOut, pmonOut, gpus, uuid_to_index, pmon, quit, elapsed>>

----------------------------------------------------------------------------
(* print_once, lines 233-262 *)

\* lines 234-236
OnceHaveNvidiaSmi ==
    /\ mode = "once"
    /\ pc = "have_nvidia_smi"
    /\ \E present \in BOOLEAN : pc' = IF present THEN "gpu" ELSE "exit_1"
    /\ calls' = Append(calls, "have_nvidia_smi")
    /\ UNCHANGED <<mode, Snapshot_vars, quit, elapsed>>

\* lines 238-262: the report is printed from gpus and per_gpu; the other
\* locals of snapshot() are gone since it returned
PrintOnce ==
    /\ pc = "print"
    /\ pc' = "exit_0"
    /\ calls' = Append(calls, "render")
    /\ devOut' = <<>>
    /\ procOut' = <<>>
    /\ pmonOut' = <<>>
    /\ uuid_to_index' = EmptyDict
    /\ procs' = <<>>
    /\ pmon' = <<>>
    /\ grouped' = EmptyDict
    /\ writes' = <<>>
    /\ UNCHANGED <<mode, gpus, per_gpu, quit, elapsed>>

InitLocals ==
    /\ devOut = <<>>
    /\ procOut = <<>>
    /\ pmonOut = <<>>
    /\ gpus = <<>>
    /\ uuid_to_index = EmptyDict
    /\ procs = <<>>
    /\ pmon = <<>>
    /\ grouped = EmptyDict
    /\ per_gpu = EmptyDict
    /\ writes = <<>>
    /\ calls = <<>>
    /\ quit = FALSE
    /\ elapsed = 0

Init ==
    /\ mode = "once"
    /\ pc = "have_nvidia_smi"
    /\ InitLocals

Next ==
    \/ OnceHaveNvidiaSmi
    \/ GetGpuStats(DevOutputs)
    \/ GetComputeProcesses(ProcOutputs)
    \/ GetPmonOnce(PmonOutputs)
    \/ Reconcile
    \/ PrintOnce

Spec == Init /\ [][Next]_vars

----------------------------------------------------------------------------
(* One reader called on its own with any output of its query *)

InitReaders ==
    /\ mode = "unit"
    /\ pc \in {"gpu", "procs", "pmon"}
    /\ InitLocals

NextReaders ==
    \/ GetGpuStats(ReaderDevOutputs)
    \/ GetComputeProcesses(ReaderProcOutputs)
    \/ GetPmonOnce(ReaderPmonOutputs)

SpecReaders == InitReaders /\ [][NextReaders]_vars

----------------------------------------------------------------------------
(* draw, lines 159-230 *)

Keys == {"q", "x", "none"}

\* lines 164-170: the top of a refresh cycle.  The previous cycle's gpus and
\* per_gpu are dead from here on (line 179 rebinds them before any use).
DrawTop ==
    /\ mode = "draw"
    /\ pc = "draw_top"
    /\ \E present \in BOOLEAN : pc' = IF present THEN "gpu" ELSE "absent"
    /\ calls' = <<"have_nvidia_smi">>
    /\ devOut' = <<>>
    /\ procOut' = <<>>
    /\ pmonOut' = <<>>
    /\ gpus' = <<>>
    /\ uuid_to_index' = EmptyDict
    /\ procs' = <<>>
    /\ pmon' = <<>>
    /\ grouped' = EmptyDict
    /\ per_gpu' = EmptyDict
    /\ writes' = <<>>
    /\ elapsed' = 0
    /\ UNCHANGED <<mode, quit>>

\* lines 171-177: the message, one sleep of the interval, one getch
DrawAbsent ==
    /\ pc = "absent"
    /\ \E ch \in Keys :
         /\ quit' = (ch = "q")
         /\ pc' = IF ch = "q" THEN "exit" ELSE "draw_top"
    /\ calls' = calls \o <<"render", "sleep", "getch">>
    /\ UNCHANGED <<mode, Snapshot_vars, elapsed>>

\* lines 181-219: the screen is written from gpus and per_gpu; the other
\* locals of snapshot() are gone since it returned
Render ==
    /\ pc = "render"
    /\ pc' = "poll"
    /\ calls' = Append(calls, "render")
    /\ devOut' = <<>>
    /\ procOut' = <<>>
    /\ pmonOut' = <<>>
    /\ uuid_to_index' = EmptyDict
    /\ procs' = <<>>
    /\ pmon' = <<>>
    /\ grouped' = EmptyDict
    /\ writes' = <<>>
    /\ elapsed' = 0
    /\ UNCHANGED <<mode, gpus, per_gpu, quit>>

\* variant: 'q' is not acted on
after_getch_ignores_q(ch, timeup) == IF timeup THEN "draw_top" ELSE "poll"

\* lines 224-230: where one iteration of the key loop goes
after_getch(ch, timeup) ==
    IF ch = "q" THEN "exit"
    ELSE IF timeup THEN "draw_top"
    ELSE "poll"

\* lines 223-230: one iteration of the key loop; the interval is over after
\* at most MaxPolls sleeps of 0.05 s
PollKey ==
    /\ pc = "poll"
    /\ \E ch \in Keys, timeup \in BOOLEAN :
         /\ elapsed = MaxPolls => timeup
         /\ quit' = (ch = "q")
         /\ pc' = after_getch(ch, timeup)
         /\ elapsed' = IF pc' = "poll" THEN elapsed + 1 ELSE elapsed
    /\ calls' = IF calls[Len(calls)] = "getch" THEN calls ELSE Append(calls, "getch")
    /\ UNCHANGED <<mode, Snapshot_vars>>

InitDraw ==
    /\ mode = "draw"
    /\ pc = "draw_top"
    /\ InitLocals

NextDraw ==
    \/ DrawTop
    \/ DrawAbsent
    \/ GetGpuStats(DrawDevOutputs)
    \/ GetComputeProcesses(DrawProcOutputs)
    \/ GetPmonOnce(DrawPmonOutputs)
    \/ Reconcile
    \/ Render
    \/ PollKey

SpecDraw == InitDraw /\ [][NextDraw]_vars

----------------------------------------------------------------------------
(* Vocabulary of the properties, stated on the tool's text and on the       *)
(* snapshot, not through the readers' operators.                            *)

\* snapshot() has returned and its locals are still in the state
Returned == pc \in {"print", "render"}

Range(f) == {f[x] : x \in DOMAIN f}

Count(seq, x) == Cardinality({i \in 1..Len(seq) : seq[i] = x})

IsNumeral(s) == s \in DOMAIN IntTable
IsDecimal(s) == s \in DOMAIN IntTable \/ s \in DOMAIN FloatTable

\* the text of a field without its padding
Trimmed(s) == IF s \in DOMAIN StripTable THEN StripTable[s] ELSE s

\* a device line every column of which converts
DevWellFormed(ln) ==
    /\ Len(ln) >= 10
    /\ \A c \in {2, 4, 5, 6, 7} : IsNumeral(Trimmed(ln[c]))
    /\ \A c \in {8, 9} : Trimmed(ln[c]) = "N/A" \/ IsDecimal(Trimmed(ln[c]))
    /\ Trimmed(ln[10]) = "N/A" \/ IsNumeral(Trimmed(ln[10]))
    /\ Len(ln) >= 11 => Trimmed(ln[11]) = "N/A" \/ IsNumeral(Trimmed(ln[11]))

\* the positions of the well-formed lines of the device query, ascending
DevWellFormedAt ==
    SelectSeq([i \in 1..Len(devOut) |-> i], LAMBDA i : DevWellFormed(devOut[i]))

DevIndexOf(ln) == IntTable[Trimmed(ln[2])]

\* the records the snapshot holds, over all devices
SnapshotRecords == UNION {Range(per_gpu[idx]) : idx \in DOMAIN per_gpu}

DeviceIndexes == {gpus[k].index : k \in 1..Len(gpus)}
DeviceUuids == {gpus[k].uuid : k \in 1..Len(gpus)}

\* the index of the last device record that carries the uuid
LastIndexOf(u) ==
    LET k == CHOOSE k \in 1..Len(gpus) :
                 /\ gpus[k].uuid = u
                 /\ \A j \in (k + 1)..Len(gpus) : gpus[j].uuid # u
    IN gpus[k].index

\* sample j is for process record p
SampleFor(p, j) ==
    /\ p.uuid \in DeviceUuids
    /\ pmon[j].pid = <<p.pid>>
    /\ pmon[j].gpu = LastIndexOf(p.uuid)

HasSample(p) == \E j \in 1..Len(pmon) : SampleFor(p, j)

----------------------------------------------------------------------------
\* C1: when snapshot() has returned, the keys of per_gpu are exactly the
\* indexes of the returned devices, and a device no process record resolves
\* to has the empty sequence.
C1_GroupingKeys ==
    Returned =>
        /\ DOMAIN per_gpu = DeviceIndexes
        /\ \A idx \in DOMAIN per_gpu :
              (\A i \in 1..Len(procs) :
                   procs[i].uuid \notin DeviceUuids \/ LastIndexOf(procs[i].uuid) # idx)
              => per_gpu[idx] = <<>>

C1_Witness ==
    /\ Returned
    /\ \E idx \in DOMAIN per_gpu : per_gpu[idx] = <<>>
    /\ \E idx \in DOMAIN per_gpu : per_gpu[idx] # <<>>

----------------------------------------------------------------------------
\* C2 as claimed: a process record and a sample with the same
\* (deviceIndex, pid) give a record whose sm and mem_util are non-null and
\* equal to that sample's.
C2_AnySampleNonNull ==
    Returned =>
        \A p \in Range(procs) \cup SnapshotRecords : \A j \in 1..Len(pmon) :
            SampleFor(p, j) =>
                /\ p.sm # None
                /\ p.mem_util # None
                /\ p.sm = pmon[j].sm
                /\ p.mem_util = pmon[j].mem

\* C2 amended: the record carries the sm and mem of the LAST sample with its
\* (deviceIndex, pid), null where that sample had the '-' sentinel.
C2_LastSampleJoined ==
    Returned =>
        \A p \in Range(procs) \cup SnapshotRecords : \A j \in 1..Len(pmon) :
            (SampleFor(p, j) /\ \A l \in (j + 1)..Len(pmon) : ~SampleFor(p, l)) =>
                /\ p.sm = pmon[j].sm
                /\ p.mem_util = pmon[j].mem

C2_Witness ==
    /\ Returned
    /\ \E p \in SnapshotRecords : \E j, l \in 1..Len(pmon) :
          /\ j < l
          /\ SampleFor(p, j)
          /\ SampleFor(p, l)
          /\ pmon[j].sm # pmon[l].sm
          /\ p.sm = pmon[l].sm

----------------------------------------------------------------------------
\* C3: a process record without a sample for its (deviceIndex, pid) has sm
\* and mem_util null; both are null until the join, which assigns them at
\* most once per record.
C3_NullWithoutSample ==
    /\ pc \in {"pmon", "join"} =>
          \A i \in 1..Len(procs) :
              procs[i].sm = None /\ procs[i].mem_util = None /\ writes[i] = 0
    /\ Returned =>
          /\ \A i \in 1..Len(procs) :
                /\ writes[i] <= 1
                /\ ~HasSample(procs[i]) =>
                      procs[i].sm = None /\ procs[i].mem_util = None /\ writes[i] = 0
          /\ \A p \in SnapshotRecords :
                ~HasSample(p) => p.sm = None /\ p.mem_util = None

C3_Witness ==
    /\ Returned
    /\ \E p \in SnapshotRecords : ~HasSample(p) /\ p.sm = None
    /\ \E i \in 1..Len(procs) : HasSample(procs[i]) /\ writes[i] = 1 /\ procs[i].sm # None

----------------------------------------------------------------------------
\* the pair a record is ordered by: a null sm counts as 0
OrderPair(p) == <<IF p.sm = <<>> THEN 0 ELSE p.sm[1], p.mem>>

\* C4: every device's sequence is ordered by (sm or 0, mem) descending, and
\* sorting changes no record: a null sm stays null.
C4_SortedDescending ==
    Returned =>
        \A idx \in DOMAIN per_gpu :
            /\ \A k \in 1..(Len(per_gpu[idx]) - 1) :
                  LET a == OrderPair(per_gpu[idx][k])
                      b == OrderPair(per_gpu[idx][k + 1]) IN
                  a[1] > b[1] \/ (a[1] = b[1] /\ a[2] >= b[2])
            /\ Len(per_gpu[idx]) = Len(grouped[idx])
            /\ \A r \in Range(grouped[idx]) \cup Range(per_gpu[idx]) :
                  Count(per_gpu[idx], r) = Count(grouped[idx], r)

C4_Witness ==
    /\ Returned
    /\ \E idx \in DOMAIN per_gpu :
          /\ Len(per_gpu[idx]) >= 2
          /\ per_gpu[idx] # grouped[idx]
          /\ per_gpu[idx][1].sm # None
          /\ per_gpu[idx][1].mem < per_gpu[idx][2].mem
          /\ per_gpu[idx][2].sm = None

----------------------------------------------------------------------------
\* C5 as claimed: the devices of a snapshot are in ascending index order.
C5_DevicesAscending ==
    Returned => \A i, j \in 1..Len(gpus) : i < j => gpus[i].index <= gpus[j].index

\* C5 amended: the devices are in the order in which the device query
\* emitted their (well-formed) rows; nothing sorts them.
C5_DevicesInRowOrder ==
    Returned =>
        /\ Len(gpus) = Len(DevWellFormedAt)
        /\ \A k \in 1..Len(gpus) :
              /\ gpus[k].index = DevIndexOf(devOut[DevWellFormedAt[k]])
              /\ gpus[k].uuid = Trimmed(devOut[DevWellFormedAt[k]][1])

C5_Witness ==
    /\ Returned
    /\ Len(gpus) = 2
    /\ gpus[1].index > gpus[2].index

----------------------------------------------------------------------------
\* C6: a process whose uuid no returned device carries is in no device's
\* sequence, nothing raises, and the processes of known devices are grouped.
C6_UnknownUuidExcluded ==
    /\ pc # "raised"
    /\ Returned =>
          \A i \in 1..Len(procs) :
              IF procs[i].uuid \in DeviceUuids
              THEN procs[i] \in Range(per_gpu[LastIndexOf(procs[i].uuid)])
              ELSE \A r \in SnapshotRecords : r.uuid # procs[i].uuid

C6_Witness ==
    /\ Returned
    /\ \E i \in 1..Len(devOut) : ~DevWellFormed(devOut[i])
    /\ \E i \in 1..Len(procs) :
          /\ procs[i].uuid \notin DeviceUuids
          /\ \E j \in 1..Len(devOut) : devOut[j][1] = procs[i].uuid
    /\ \E i \in 1..Len(procs) : procs[i].uuid \in DeviceUuids

----------------------------------------------------------------------------
Tenths(s) == IF s \in DOMAIN FloatTable THEN FloatTable[s] ELSE 10 * IntTable[s]

ExpectedDevice(ln) ==
    [uuid |-> Trimmed(ln[1]),
     index |-> IntTable[Trimmed(ln[2])],
     name |-> Trimmed(ln[3]),
     temp |-> IntTable[Trimmed(ln[4])],
     util |-> IntTable[Trimmed(ln[5])],
     mem_used |-> IntTable[Trimmed(ln[6])],
     mem_total |-> IntTable[Trimmed(ln[7])],
     pwr |-> IF Trimmed(ln[8]) = "N/A" THEN <<>> ELSE <<Tenths(Trimmed(ln[8]))>>,
     pwr_lim |-> IF Trimmed(ln[9]) = "N/A" THEN <<>> ELSE <<Tenths(Trimmed(ln[9]))>>,
     sm_clock |-> IF Trimmed(ln[10]) = "N/A" THEN <<>> ELSE <<IntTable[Trimmed(ln[10])]>>,
     fan |-> IF Len(ln) < 11 \/ Trimmed(ln[11]) = "N/A"
             THEN <<>> ELSE <<IntTable[Trimmed(ln[11])]>>]

\* C7: get_gpu_stats returns one record per well-formed line, in line order,
\* converted field for field (fan null when the line has no fan column);
\* every other line is dropped; no line makes a reader raise.
C7_ForgivingDeviceReader ==
    /\ pc # "raised"
    /\ pc = "returned" =>
          gpus = [k \in 1..Len(DevWellFormedAt) |-> ExpectedDevice(devOut[DevWellFormedAt[k]])]

C7_Witness ==
    /\ pc = "returned"
    /\ Len(devOut) = 2
    /\ Len(devOut[1]) < 10
    /\ Len(devOut[2]) = 10
    /\ Len(gpus) = 1
    /\ gpus[1].fan = None

----------------------------------------------------------------------------
\* C8 as claimed: no two devices of a snapshot have the same index.
C8_IndexUnique ==
    Returned => \A i, j \in 1..Len(gpus) : gpus[i].index = gpus[j].index => i = j

\* C8 amended: an index occurs among the devices as often as among the
\* well-formed rows of the device query, so it is unique when those rows
\* carry distinct indexes; nothing removes a repeated index.
C8_IndexAsOftenAsEmitted ==
    Returned =>
        /\ \A v \in DeviceIndexes \cup {DevIndexOf(devOut[i]) : i \in Range(DevWellFormedAt)} :
              Cardinality({k \in 1..Len(gpus) : gpus[k].index = v})
                  = Cardinality({i \in Range(DevWellFormedAt) : DevIndexOf(devOut[i]) = v})
        /\ (\A i, j \in Range(DevWellFormedAt) :
                DevIndexOf(devOut[i]) = DevIndexOf(devOut[j]) => i = j)
           => \A i, j \in 1..Len(gpus) : gpus[i].index = gpus[j].index => i = j

C8_Witness ==
    /\ Returned
    /\ Len(gpus) = 2
    /\ gpus[1].index # gpus[2].index
    /\ gpus[1].uuid = gpus[2].uuid

----------------------------------------------------------------------------
\* what a cycle does, in order, with the tool present and with it absent
CyclePresent ==
    <<"have_nvidia_smi", "query-gpu", "query-compute-apps", "pmon", "join", "render", "getch">>
CycleAbsent == <<"have_nvidia_smi", "render", "sleep", "getch">>

IsPrefix(a, b) == Len(a) <= Len(b) /\ \A i \in 1..Len(a) : a[i] = b[i]

C9_StateOrder ==
    /\ IsPrefix(calls, CyclePresent) \/ IsPrefix(calls, CycleAbsent)
    /\ pc = "render" => calls = SubSeq(CyclePresent, 1, 5) /\ DOMAIN per_gpu = DeviceIndexes
    /\ pc \in {"gpu", "procs", "pmon", "join", "render"} => ~quit /\ "getch" \notin Range(calls)
    /\ quit => pc = "exit" /\ "render" \in Range(calls)

\* C9: in a cycle of the curses loop with the tool present the device query,
\* the process query, the monitoring sample and the join run in that order
\* before the render; getch is called only after the render; once 'q' has
\* been read nothing more runs.
C9_CycleOrder == [] C9_StateOrder /\ [][~quit]_vars

C9_Witness ==
    /\ quit
    /\ pc = "exit"
    /\ calls = CyclePresent
    /\ \E idx \in DOMAIN per_gpu : per_gpu[idx] # <<>>

----------------------------------------------------------------------------
\* the number of records over all groups
RECURSIVE TotalLen(_, _)
TotalLen(groups, keys) ==
    IF keys = {} THEN 0
    ELSE LET k == CHOOSE k \in keys : TRUE IN
         Len(groups[k]) + TotalLen(groups, keys \ {k})

\* C10: every process record with a known uuid is in the snapshot exactly as
\* often as the process query returned it, under the index of the last
\* device row with its uuid and under no other; the grouped records are as
\* many as the records with a known uuid.
C10_GroupedExactlyOnce ==
    Returned =>
        /\ \A r \in Range(procs) :
              r.uuid \in DeviceUuids =>
                  \A idx \in DOMAIN per_gpu :
                      Count(per_gpu[idx], r) =
                          IF idx = LastIndexOf(r.uuid) THEN Count(procs, r) ELSE 0
        /\ TotalLen(per_gpu, DOMAIN per_gpu)
              = Cardinality({i \in 1..Len(procs) : procs[i].uuid \in DeviceUuids})

C10_Witness ==
    /\ Returned
    /\ \E k, j \in 1..Len(gpus) :
          /\ k < j
          /\ gpus[k].uuid = gpus[j].uuid
          /\ gpus[k].index # gpus[j].index
          /\ Len(per_gpu[gpus[j].index]) = 2
          /\ per_gpu[gpus[k].index] = <<>>
====
